---------------------------- MODULE Spec2Model ----------------------------
(***************************************************************************)
(* Track control protocol of songbird (src/tracks/mod.rs).                 *)
(*                                                                         *)
(* One Track is owned by one thread (the user before the track is handed   *)
(* to the driver, the mixer afterwards).  Any number of TrackHandles push  *)
(* TrackCommands into an unbounded flume channel; Track::process_commands  *)
(* drains it with try_recv, one command per loop iteration.                *)
(*                                                                         *)
(* Durations are whole milliseconds.  f32 volumes are tenths (10 = 1.0).   *)
(* LoopState is an integer: Infinite is -1, Finite(n) is n.                *)
(***************************************************************************)
EXTENDS Integers, Sequences, FiniteSets, TLC

\* ------------------------------------------------------------ bounds
\* Longest command queue the producers build up (the channel is unbounded).
MaxQueue == 3
\* Longest queue a lone producer builds up in the single-handle runs.
MaxPending == 2
\* Most step_frame calls of one run.
MaxFrames == 2
\* Largest finite loop count a caller asks for.
MaxLoops == 2
\* Most do_loop calls after one change of the loop count.
MaxLoopCalls == 3
\* Largest track index the mixer passes to process_commands.
MaxIndex == 1
\* Number of distinct uuids in use.
MaxUuid == 3
\* Most tracks created in one run.
MaxPlayers == 3

\* ------------------------------------------------------------ constants
\* crate::constants::TIMESTEP_LENGTH, 20 ms.
TIMESTEP_LENGTH == 20
\* LoopState::Infinite; LoopState::Finite(n) is n >= 0.
Infinite == -1
\* Option::None of Input::seek_time.
None == -1

PlayModes == {"Play", "Pause", "Stop", "End"}
\* The volumes callers ask for, besides the initial 1.0: 0.2 and 0.8.
Volumes == {2, 8}
\* The positions callers seek to.
SeekRequests == {0, 35}
\* The loop states callers ask for.
LoopRequests == {Infinite, 0, MaxLoops}
\* External handles: the one create_player returns, and a clone of it.
Handles == {"A", "B"}
Indices == 0..MaxIndex
Uuids == 1..MaxUuid

\* ------------------------------------------------------------ state
VARIABLES
    track,      \* the Track's fields: playing, volume, position, play_time, loops
    source,     \* the Input: seekable, playable (lazily initialised or not)
    commands,   \* the flume channel: commands sent and not yet received
    live,       \* the external handles that exist (not dropped)
    rx,         \* per handle: the one-shot reply channel of its state request
    pc,         \* the owning thread: "idle", or "loop" inside process_commands;
                \* "gone" once the track was dropped
    index,      \* the index argument of the running process_commands call
    icAlive,    \* whether the event thread still holds ic.events' receiver
    done,       \* what the last loop iteration received and sent
    result,     \* what the last direct call on the Track returned
    players,    \* the (Track, TrackHandle) pairs created so far, by their
                \* uuids; the first is the track this model follows
    order,      \* history: the queued commands in the order they were sent
    callStart,  \* history: the queue when the running call started
    drained,    \* history: the commands the running call has applied
    enqDuring,  \* history: a producer sent while the call was running
                \* (callStart and drained are kept only until then)
    frames,     \* history: number of step_frame calls
    loopBase,   \* history: the loop state at creation / the last set_loops
    loopCalls,  \* history: do_loop calls since then
    loopPermits \* history: do_loop calls since then that returned true

trackVars == <<track, source>>
histVars == <<order, callStart, drained, enqDuring, frames, loopBase, loopCalls, loopPermits>>
vars == <<track, source, commands, live, rx, pc, index, icAlive, done, result, players,
          histVars>>

\* ------------------------------------------------------------ PlayMode
\* PlayMode::change_to (tracks/mode.rs): a stopped or ended track stays so.
change_to(cur, new) ==
    IF cur \in {"Play", "Pause"} THEN new ELSE cur

\* ------------------------------------------------------------ Input
\* Input::seek_time: the position the source resolves a seek to, or None.
\* A seekable source snaps to its own granularity and may fail (an I/O
\* error); a source that cannot seek never resolves a position.
SourceSeek(src, pos) ==
    IF src.seekable THEN {None, (pos \div 10) * 10} ELSE {None}

\* ------------------------------------------------------------ Track
\* Track::new_raw: the fields of a freshly built track.
new_raw ==
    [playing |-> "Play", volume |-> 10, position |-> 0, play_time |-> 0,
     loops |-> 0]

\* Mutant: the requested state is stored without asking change_to.
set_playing_unchecked(t, new_state) ==
    [t EXCEPT !.playing = new_state]

set_playing(t, new_state) ==
    [t EXCEPT !.playing = change_to(t.playing, new_state)]

play(t) == set_playing(t, "Play")

pause(t) == set_playing(t, "Pause")

\* Mutant: stop() asks for End.
stop_ends(t) == set_playing(t, "End")

stop(t) == set_playing(t, "Stop")

end(t) == set_playing(t, "End")

\* Mutant: the field is assigned to itself.
set_volume_kept(t, volume) ==
    [t EXCEPT !.volume = t.volume]

set_volume(t, volume) ==
    [t EXCEPT !.volume = volume]

\* Mutant: the loop count is stored whether or not the source can seek.
set_loops_unchecked(t, src, loops) ==
    [t |-> [t EXCEPT !.loops = loops], ok |-> TRUE, val |-> 0]

\* Returns the track and the TrackResult<()>.
set_loops(t, src, loops) ==
    IF src.seekable
        THEN [t |-> [t EXCEPT !.loops = loops], ok |-> TRUE, val |-> 0]
        ELSE [t |-> t, ok |-> FALSE, val |-> 0]

\* Mutant: the last loop is refused (Finite(0) | Finite(1) => false).
do_loop_early(t) ==
    IF t.loops = Infinite THEN [t |-> t, ret |-> TRUE]
    ELSE IF t.loops <= 1 THEN [t |-> t, ret |-> FALSE]
    ELSE [t |-> [t EXCEPT !.loops = t.loops - 1], ret |-> TRUE]

\* Returns the track and the bool.  Finite(0) is matched before the
\* decrement, so the usize never wraps.
do_loop(t) ==
    IF t.loops = Infinite THEN [t |-> t, ret |-> TRUE]
    ELSE IF t.loops = 0 THEN [t |-> t, ret |-> FALSE]
    ELSE [t |-> [t EXCEPT !.loops = t.loops - 1], ret |-> TRUE]

\* Mutant: only the position is stepped.
step_frame_position_only(t) ==
    [t EXCEPT !.position = t.position + TIMESTEP_LENGTH]

step_frame(t) ==
    [t EXCEPT !.position = t.position + TIMESTEP_LENGTH,
              !.play_time = t.play_time + TIMESTEP_LENGTH]

\* Mutant: the snapshot is built with the default volume.
state_default_volume(t) ==
    [playing |-> t.playing, volume |-> 10, position |-> t.position,
     play_time |-> t.play_time, loops |-> t.loops]

\* Track::state: the TrackState snapshot.
state(t) ==
    [playing |-> t.playing, volume |-> t.volume, position |-> t.position,
     play_time |-> t.play_time, loops |-> t.loops]

\* Mutant: the requested position is stored, not the resolved one.
seek_time_requested(t, pos, resolved) ==
    IF resolved # None
        THEN [t |-> [t EXCEPT !.position = pos], ok |-> TRUE, val |-> resolved]
        ELSE [t |-> t, ok |-> FALSE, val |-> 0]

\* Track::seek_time(pos), given what source.seek_time(pos) returned.
seek_time(t, pos, resolved) ==
    IF resolved # None
        THEN [t |-> [t EXCEPT !.position = resolved], ok |-> TRUE, val |-> resolved]
        ELSE [t |-> t, ok |-> FALSE, val |-> 0]

make_playable(src) ==
    [src EXCEPT !.playable = TRUE]

\* ------------------------------------------------------------ identity
\* Uuid::new_v4 (uuid crate): a random uuid, which no object in use carries.
new_v4(used) == Uuids \ used

\* TrackHandle::new (tracks/handle.rs), reduced to the uuid it stores.
TrackHandle_new(uuid) == [uuid |-> uuid]

\* TrackHandle::uuid (tracks/handle.rs).
handle_uuid(handle) == handle.uuid

\* Mutant: the track gets the nil uuid, not its handle's.
new_raw_uuid_nil(handle) ==
    [uuid |-> 0, handle |-> handle]

\* Track::new_raw, the identity it gives the track: the uuid is read from the
\* handle, and the handle is kept.
new_raw_uuid(handle) ==
    [uuid |-> handle_uuid(handle), handle |-> handle]

\* The Track and the TrackHandle returned; the track keeps handle.clone().
create_player_with_uuid(uuid) ==
    LET handle == TrackHandle_new(uuid) IN
    [player |-> new_raw_uuid(handle), handle |-> handle]

\* create_player, given the uuid that Uuid::new_v4() returned.
create_player(fresh) == create_player_with_uuid(fresh)

\* An entry of players: the pair, and the uuid the caller supplied (None for
\* create_player).
Created(pair, given) ==
    [player |-> pair.player, handle |-> pair.handle, given |-> given]

\* ------------------------------------------------------------ commands
\* TrackCommand (tracks/command.rs), with the handle that sent it.  arg is
\* the volume, the seek position, the loop state or the closure; 0 otherwise.
Cmd(kind, arg, h) == [kind |-> kind, arg |-> arg, h |-> h]

\* The closures callers send in Do: 1 is |t| { t.pause(); },
\* 2 is |t| { let _ = t.set_loops(LoopState::Infinite); },
\* 3 is |t| { if t.playing() == PlayMode::Play { t.pause(); } else { t.play(); } }.
Closures == {1, 2, 3}

CommandPayloads ==
    {<<"Play", 0>>, <<"Pause", 0>>, <<"Stop", 0>>, <<"AddEvent", 0>>,
     <<"Request", 0>>, <<"MakePlayable", 0>>}
    \cup {<<"Volume", v>> : v \in Volumes}
    \cup {<<"Seek", p>> : p \in SeekRequests}
    \cup {<<"Loop", l>> : l \in LoopRequests}
    \cup {<<"Do", c>> : c \in Closures}

\* The snapshot field of a message that carries none.
NoState == [playing |-> "", volume |-> 0, position |-> 0, play_time |-> 0, loops |-> 0]

\* EventMessage sent on ic.events: ChangeState(index, change) with change one
\* of Mode(mode), Volume(num), Position(num), Loops(num, true), Total(total),
\* or AddTrackEvent(index, evt) with the event in num.
Msg(kind, idx, mode, num, total) ==
    [kind |-> kind, index |-> idx, mode |-> mode, num |-> num, total |-> total]

\* The closure's effect on the track.
RunClosure(c, t, src) ==
    IF c = 1 THEN pause(t)
    ELSE IF c = 2 THEN set_loops(t, src, Infinite).t
    ELSE IF t.playing = "Play" THEN pause(t) ELSE play(t)

\* The source positions a command's seek may resolve to.
SeekChoices(cmd, src) ==
    IF cmd.kind = "Seek" THEN SourceSeek(src, cmd.arg) ELSE {None}

\* The arms of the match in process_commands.  Each gives the track and the
\* source after the command, the messages passed to ic.events.send, and the
\* snapshots sent on the command's reply channel.
Arm(t, src, sent, reply) == [t |-> t, src |-> src, sent |-> sent, reply |-> reply]

\* Mutant: the notification carries the requested mode.
PlayArm_requested(t, src, idx) ==
    Arm(play(t), src, <<Msg("Mode", idx, "Play", 0, NoState)>>, <<>>)

PlayArm(t, src, idx) ==
    LET t2 == play(t) IN
    Arm(t2, src, <<Msg("Mode", idx, t2.playing, 0, NoState)>>, <<>>)

PauseArm(t, src, idx) ==
    LET t2 == pause(t) IN
    Arm(t2, src, <<Msg("Mode", idx, t2.playing, 0, NoState)>>, <<>>)

StopArm(t, src, idx) ==
    LET t2 == stop(t) IN
    Arm(t2, src, <<Msg("Mode", idx, t2.playing, 0, NoState)>>, <<>>)

VolumeArm(t, src, vol, idx) ==
    LET t2 == set_volume(t, vol) IN
    Arm(t2, src, <<Msg("Volume", idx, "", t2.volume, NoState)>>, <<>>)

\* Mutant: the position is announced whether or not the seek succeeded.
SeekArm_always_notifies(t, src, time, idx, resolved) ==
    LET r == seek_time(t, time, resolved) IN
    Arm(r.t, src, <<Msg("Position", idx, "", r.val, NoState)>>, <<>>)

SeekArm(t, src, time, idx, resolved) ==
    LET r == seek_time(t, time, resolved) IN
    Arm(r.t, src, IF r.ok THEN <<Msg("Position", idx, "", r.val, NoState)>> ELSE <<>>, <<>>)

AddEventArm(t, src, evt, idx) ==
    Arm(t, src, <<Msg("AddTrackEvent", idx, "", evt, NoState)>>, <<>>)

\* Mutant: the closure is called twice.
DoArm_twice(t, src, action, idx) ==
    LET t2 == RunClosure(action, RunClosure(action, t, src), src) IN
    Arm(t2, src, <<Msg("Total", idx, "", 0, state(t2))>>, <<>>)

DoArm(t, src, action, idx) ==
    LET t2 == RunClosure(action, t, src) IN
    Arm(t2, src, <<Msg("Total", idx, "", 0, state(t2))>>, <<>>)

\* Mutant: tx is dropped without a send.
RequestArm_silent(t, src) ==
    Arm(t, src, <<>>, <<>>)

RequestArm(t, src) ==
    Arm(t, src, <<>>, <<state(t)>>)

LoopArm(t, src, loops, idx) ==
    LET r == set_loops(t, src, loops) IN
    Arm(r.t, src, IF r.ok THEN <<Msg("Loops", idx, "", r.t.loops, NoState)>> ELSE <<>>, <<>>)

MakePlayableArm(t, src) ==
    Arm(t, make_playable(src), <<>>, <<>>)

\* match cmd { ... }.
ApplyCommand(t, src, cmd, idx, resolved) ==
    CASE cmd.kind = "Play" -> PlayArm(t, src, idx)
      [] cmd.kind = "Pause" -> PauseArm(t, src, idx)
      [] cmd.kind = "Stop" -> StopArm(t, src, idx)
      [] cmd.kind = "Volume" -> VolumeArm(t, src, cmd.arg, idx)
      [] cmd.kind = "Seek" -> SeekArm(t, src, cmd.arg, idx, resolved)
      [] cmd.kind = "AddEvent" -> AddEventArm(t, src, cmd.arg, idx)
      [] cmd.kind = "Do" -> DoArm(t, src, cmd.arg, idx)
      [] cmd.kind = "Request" -> RequestArm(t, src)
      [] cmd.kind = "Loop" -> LoopArm(t, src, cmd.arg, idx)
      [] cmd.kind = "MakePlayable" -> MakePlayableArm(t, src)

\* flume's Sender::send on ic.events: Err once the event thread's receiver is
\* dropped.
EventsSend(icUp, msgs) ==
    IF icUp \/ msgs = <<>> THEN "Ok" ELSE "Err"

\* Mutant: a failed send ends the track.
Iteration_ends_on_failure(t, src, cmd, idx, resolved, icUp) ==
    LET a == ApplyCommand(t, src, cmd, idx, resolved) IN
    IF EventsSend(icUp, a.sent) = "Err" THEN [a EXCEPT !.t = end(a.t)] ELSE a

\* The Ok(cmd) arm of one loop iteration: the command's arm runs; what
\* ic.events.send returns is dropped (let _ = ...).
Iteration(t, src, cmd, idx, resolved, icUp) ==
    LET a == ApplyCommand(t, src, cmd, idx, resolved)
        sendResult == EventsSend(icUp, a.sent)
    IN a

\* Mutant: the newest message is received first.
try_recv_newest(q, senders) ==
    IF q # <<>> THEN [st |-> "Ok", cmd |-> q[Len(q)], rest |-> SubSeq(q, 1, Len(q) - 1)]
    ELSE IF senders = 0 THEN [st |-> "Disconnected", cmd |-> Cmd("", 0, ""), rest |-> q]
    ELSE [st |-> "Empty", cmd |-> Cmd("", 0, ""), rest |-> q]

\* flume's Receiver::try_recv: the oldest message, else Disconnected when no
\* Sender is left, else Empty.
try_recv(q, senders) ==
    IF q # <<>> THEN [st |-> "Ok", cmd |-> Head(q), rest |-> Tail(q)]
    ELSE IF senders = 0 THEN [st |-> "Disconnected", cmd |-> Cmd("", 0, ""), rest |-> q]
    ELSE [st |-> "Empty", cmd |-> Cmd("", 0, ""), rest |-> q]

\* Mutant: the track holds no handle of its own.
Senders_external == Cardinality(live)

\* The channel's Senders: the external handles and the track's own handle.
Senders == Cardinality(live) + 1

\* ------------------------------------------------------------ helpers
NoCmd == Cmd("", 0, "")

NoDone == [st |-> "", item |-> NoCmd, sent |-> <<>>]

\* A call's name and argument, what the source answered (seek_time only),
\* and what the call returned: Ok/true or Err/false, and Ok's value.
Result(op, arg, src, ok, val) ==
    [op |-> op, arg |-> arg, src |-> src, ok |-> ok, val |-> val]

NoResult == Result("", 0, None, TRUE, 0)

\* A handle's reply channel: whether get_info waits on it, the snapshot sent
\* on it, and whether its sending half is dropped.
IdleRx == [waiting |-> FALSE, chan |-> <<>>, closed |-> FALSE]

RECURSIVE RemoveFirst(_, _)
\* q without the first occurrence of x.
RemoveFirst(q, x) ==
    IF q = <<>> THEN <<>>
    ELSE IF Head(q) = x THEN Tail(q)
    ELSE <<Head(q)>> \o RemoveFirst(Tail(q), x)

\* The commands of q that handle h sent, in q's order.
PerHandle(q, h) == SelectSeq(q, LAMBDA c : c.h = h)

\* Whether the command changes the loop count through set_loops.
SetsLoops(cmd, src) ==
    src.seekable /\ (cmd.kind = "Loop" \/ (cmd.kind = "Do" /\ cmd.arg = 2))

LoopsAfter(cmd) == IF cmd.kind = "Loop" THEN cmd.arg ELSE Infinite

\* ------------------------------------------------------------ Init
\* create_player_with_uuid on one of `sources`: a fresh channel, the track,
\* one external handle.
InitFrom(sources) ==
    /\ track = new_raw
    /\ source \in sources
    /\ commands = <<>>
    /\ live = {"A"}
    /\ rx = [h \in Handles |-> IdleRx]
    /\ pc = "idle"
    /\ index = 0
    /\ icAlive = TRUE
    /\ done = NoDone
    /\ result = NoResult
    /\ players = <<Created(create_player_with_uuid(1), 1)>>
    /\ order = <<>>
    /\ callStart = <<>>
    /\ drained = <<>>
    /\ enqDuring = FALSE
    /\ frames = 0
    /\ loopBase = 0
    /\ loopCalls = 0
    /\ loopPermits = 0

Sources == [seekable : BOOLEAN, playable : BOOLEAN]

Init == InitFrom(Sources)

\* ------------------------------------------------------------ the owner's calls
loopHist == <<loopBase, loopCalls, loopPermits>>
callHist == <<order, callStart, drained, enqDuring>>
others == <<commands, live, rx, index, icAlive, done, players>>

\* play(), pause(), stop(), end() called on the track.
CallSetPlaying(m) ==
    /\ pc = "idle"
    /\ track' = (CASE m = "Play" -> play(track)
                   [] m = "Pause" -> pause(track)
                   [] m = "Stop" -> stop(track)
                   [] m = "End" -> end(track))
    /\ result' = Result(m, 0, None, TRUE, 0)
    /\ UNCHANGED <<source, pc, others, callHist, frames, loopHist>>

CallSetVolume(v) ==
    /\ pc = "idle"
    /\ track' = set_volume(track, v)
    /\ result' = Result("set_volume", v, None, TRUE, 0)
    /\ UNCHANGED <<source, pc, others, callHist, frames, loopHist>>

CallSetLoops(l) ==
    /\ pc = "idle"
    /\ LET r == set_loops(track, source, l) IN
        /\ track' = r.t
        /\ result' = Result("set_loops", l, None, r.ok, r.val)
        /\ IF r.ok
             THEN loopBase' = l /\ loopCalls' = 0 /\ loopPermits' = 0
             ELSE UNCHANGED loopHist
    /\ UNCHANGED <<source, pc, others, callHist, frames>>

CallDoLoop ==
    /\ pc = "idle"
    /\ loopCalls < MaxLoopCalls
    /\ LET r == do_loop(track) IN
        /\ track' = r.t
        /\ result' = Result("do_loop", 0, None, r.ret, 0)
        /\ loopCalls' = loopCalls + 1
        /\ loopPermits' = loopPermits + (IF r.ret THEN 1 ELSE 0)
    /\ UNCHANGED <<source, pc, others, callHist, frames, loopBase>>

CallStepFrame ==
    /\ pc = "idle"
    /\ frames < MaxFrames
    /\ track' = step_frame(track)
    /\ frames' = frames + 1
    /\ result' = Result("step_frame", 0, None, TRUE, 0)
    /\ UNCHANGED <<source, pc, others, callHist, loopHist>>

CallSeekTime(pos) ==
    /\ pc = "idle"
    /\ \E resolved \in SourceSeek(source, pos) :
        LET r == seek_time(track, pos, resolved) IN
        /\ track' = r.t
        /\ result' = Result("seek_time", pos, resolved, r.ok, r.val)
    /\ UNCHANGED <<source, pc, others, callHist, frames, loopHist>>

CallMakePlayable ==
    /\ pc = "idle"
    /\ source' = make_playable(source)
    /\ result' = Result("make_playable", 0, None, TRUE, 0)
    /\ UNCHANGED <<track, pc, others, callHist, frames, loopHist>>

\* ------------------------------------------------------------ process_commands
\* The mixer calls process_commands(index, ic).
ProcessBegin(i) ==
    /\ pc = "idle"
    /\ pc' = "loop"
    /\ index' = i
    /\ done' = NoDone
    /\ result' = NoResult
    /\ callStart' = commands
    /\ drained' = <<>>
    /\ enqDuring' = FALSE
    /\ UNCHANGED <<track, source, commands, live, rx, icAlive, players, order, frames,
                   loopHist>>

\* An iteration of the loop whose try_recv returns a command: the command's
\* arm runs, and the thread goes on to `next`.
ApplyReceived(next) ==
    /\ pc = "loop"
    /\ LET rcv == try_recv(commands, Senders) IN
       /\ rcv.st = "Ok"
       /\ \E resolved \in SeekChoices(rcv.cmd, source) :
          LET a == Iteration(track, source, rcv.cmd, index, resolved, icAlive) IN
          /\ track' = a.t
          /\ source' = a.src
          /\ commands' = rcv.rest
          /\ done' = [st |-> "Ok", item |-> rcv.cmd, sent |-> a.sent]
          /\ rx' = IF rcv.cmd.kind = "Request" /\ rx[rcv.cmd.h].waiting
                     THEN [rx EXCEPT ![rcv.cmd.h].chan = a.reply,
                                     ![rcv.cmd.h].closed = TRUE]
                     ELSE rx
          /\ order' = RemoveFirst(order, rcv.cmd)
          /\ drained' = IF enqDuring THEN drained ELSE Append(drained, rcv.cmd)
          /\ IF SetsLoops(rcv.cmd, source)
               THEN loopBase' = LoopsAfter(rcv.cmd) /\ loopCalls' = 0 /\ loopPermits' = 0
               ELSE UNCHANGED loopHist
    /\ pc' = next
    /\ UNCHANGED <<live, index, icAlive, result, players, callStart, enqDuring, frames>>

\* Mutant: process_commands returns after the first command.
RecvCommand_once == ApplyReceived("idle")

\* Ok(cmd): after the arm the loop comes round again.
RecvCommand == ApplyReceived("loop")

\* Mutant: the loop does not break when try_recv has nothing.
RecvNothing_spins ==
    /\ pc = "loop"
    /\ LET rcv == try_recv(commands, Senders) IN
       /\ rcv.st # "Ok"
       /\ done' = [NoDone EXCEPT !.st = rcv.st]
    /\ UNCHANGED <<track, source, commands, live, rx, pc, index, icAlive, result, players,
                   histVars>>

\* Err(Empty) or Err(Disconnected): break, and process_commands returns.
RecvNothing ==
    /\ pc = "loop"
    /\ LET rcv == try_recv(commands, Senders) IN
       /\ rcv.st # "Ok"
       /\ done' = [NoDone EXCEPT !.st = rcv.st]
    /\ pc' = "idle"
    /\ index' = 0
    /\ callStart' = <<>>
    /\ drained' = <<>>
    /\ enqDuring' = FALSE
    /\ UNCHANGED <<track, source, commands, live, rx, icAlive, result, players, order,
                   frames, loopHist>>

\* One iteration of the loop of process_commands.
ProcessStep == RecvCommand \/ RecvNothing

\* ------------------------------------------------------------ the handles
\* TrackHandle::send from handle h: play(), set_volume(v), get_info(), ...
Enqueue(h, kind, arg) ==
    /\ pc # "gone"
    /\ h \in live
    /\ ~rx[h].waiting
    /\ Len(commands) < MaxQueue
    /\ commands' = Append(commands, Cmd(kind, arg, h))
    /\ order' = Append(order, Cmd(kind, arg, h))
    /\ rx' = IF kind = "Request"
               THEN [rx EXCEPT ![h] = [waiting |-> TRUE, chan |-> <<>>, closed |-> FALSE]]
               ELSE rx
    /\ IF pc = "loop"
         THEN enqDuring' = TRUE /\ callStart' = <<>> /\ drained' = <<>>
         ELSE UNCHANGED <<enqDuring, callStart, drained>>
    /\ UNCHANGED <<track, source, live, pc, index, icAlive, done, result, players, frames,
                   loopHist>>

\* get_info's wait on the reply channel ends: with the snapshot, or, when the
\* sending half was dropped without a send, with the error.
Receive(h) ==
    /\ rx[h].waiting
    /\ rx[h].chan # <<>> \/ rx[h].closed
    /\ rx' = [rx EXCEPT ![h] = IdleRx]
    /\ UNCHANGED <<track, source, commands, live, pc, index, icAlive, done, result, players,
                   histVars>>

Clone(h) ==
    /\ h \notin live
    /\ live' = live \cup {h}
    /\ UNCHANGED <<track, source, commands, rx, pc, index, icAlive, done, result, players,
                   histVars>>

Drop(h) ==
    /\ h \in live
    /\ ~rx[h].waiting
    /\ live' = live \ {h}
    /\ UNCHANGED <<track, source, commands, rx, pc, index, icAlive, done, result, players,
                   histVars>>

\* The event thread ends: every later ic.events.send fails.
EventThreadGone ==
    /\ icAlive
    /\ icAlive' = FALSE
    /\ UNCHANGED <<track, source, commands, live, rx, pc, index, done, result, players,
                   histVars>>

\* The owner drops the track (the mixer removes it): the channel's Receiver
\* goes, and with it the commands still queued; a queued Request's tx is
\* dropped unanswered.
DropTrack ==
    /\ pc = "idle"
    /\ pc' = "gone"
    /\ commands' = <<>>
    /\ order' = <<>>
    /\ rx' = [h \in Handles |->
                IF rx[h].waiting /\ rx[h].chan = <<>>
                  THEN [rx[h] EXCEPT !.closed = TRUE]
                  ELSE rx[h]]
    /\ UNCHANGED <<track, source, live, index, icAlive, done, result, players, callStart,
                   drained, enqDuring, frames, loopHist>>

\* ------------------------------------------------------------ creation
\* The created tracks that exist: all but the followed one once it is dropped.
Existing == {i \in DOMAIN players : i > 1 \/ pc # "gone"}

\* The uuids of the tracks that exist.
UsedUuids == {players[i].player.uuid : i \in Existing}

\* create_player(source) is called for another track.
CreatePlayer ==
    /\ Len(players) < MaxPlayers
    /\ \E fresh \in new_v4(UsedUuids) :
          players' = Append(players, Created(create_player(fresh), None))
    /\ UNCHANGED <<track, source, commands, live, rx, pc, index, icAlive, done, result,
                   histVars>>

\* create_player_with_uuid(source, uuid) is called for another track.
CreatePlayerWithUuid(uuid) ==
    /\ Len(players) < MaxPlayers
    /\ players' = Append(players, Created(create_player_with_uuid(uuid), uuid))
    /\ UNCHANGED <<track, source, commands, live, rx, pc, index, icAlive, done, result,
                   histVars>>

\* ------------------------------------------------------------ specifications
\* Every operation with every input.
Next ==
    \/ \E m \in PlayModes : CallSetPlaying(m)
    \/ \E v \in Volumes : CallSetVolume(v)
    \/ \E l \in LoopRequests : CallSetLoops(l)
    \/ CallDoLoop
    \/ CallStepFrame
    \/ \E p \in SeekRequests : CallSeekTime(p)
    \/ CallMakePlayable
    \/ \E i \in Indices : ProcessBegin(i)
    \/ ProcessStep
    \/ \E h \in Handles, c \in CommandPayloads : Enqueue(h, c[1], c[2])
    \/ \E h \in Handles : Receive(h)
    \/ \E h \in Handles : Clone(h)
    \/ \E h \in Handles : Drop(h)
    \/ EventThreadGone
    \/ DropTrack
    \/ CreatePlayer
    \/ \E u \in Uuids : CreatePlayerWithUuid(u)

Spec == Init /\ [][Next]_vars

\* The play state: the owner's play/pause/stop/end and make_playable, and
\* one handle's Play/Pause/Stop/MakePlayable commands and pausing closure.
ModePayloads ==
    {<<"Play", 0>>, <<"Pause", 0>>, <<"Stop", 0>>, <<"Do", 1>>, <<"MakePlayable", 0>>}

NextMode ==
    \/ \E m \in PlayModes : CallSetPlaying(m)
    \/ CallMakePlayable
    \/ \E i \in Indices : ProcessBegin(i)
    \/ ProcessStep
    \/ \E c \in ModePayloads : Len(commands) < MaxPending /\ Enqueue("A", c[1], c[2])

SpecMode == Init /\ [][NextMode]_vars

\* The queue: a handle and its clone send mutating commands and state
\* requests while the mixer drains.
QueuePayloads ==
    [A |-> {<<"Volume", 2>>, <<"Stop", 0>>, <<"Loop", Infinite>>, <<"Request", 0>>},
     B |-> {<<"Volume", 8>>, <<"Pause", 0>>, <<"Request", 0>>}]

NextQueue ==
    \/ ProcessBegin(0)
    \/ ProcessStep
    \/ \E h \in Handles : \E c \in QueuePayloads[h] : Enqueue(h, c[1], c[2])
    \/ \E h \in Handles : Receive(h)
    \/ \E h \in Handles : Clone(h)

SpecQueue == InitFrom({s \in Sources : s.playable}) /\ [][NextQueue]_vars

\* Position and loops: the mixer's step_frame and do_loop, the owner's
\* set_loops and seek_time, and one handle's Seek, Loop and Do commands.
SourcePayloads ==
    {<<"Seek", p>> : p \in SeekRequests} \cup {<<"Loop", l>> : l \in LoopRequests}
    \cup {<<"Do", 2>>}

NextSource ==
    \/ \E l \in LoopRequests : CallSetLoops(l)
    \/ CallDoLoop
    \/ CallStepFrame
    \/ \E p \in SeekRequests : CallSeekTime(p)
    \/ ProcessBegin(0)
    \/ ProcessStep
    \/ \E c \in SourcePayloads : Len(commands) < MaxPending /\ Enqueue("A", c[1], c[2])

SpecSource == InitFrom({s \in Sources : s.playable}) /\ [][NextSource]_vars

\* The drain under load: handles that go on sending while the mixer thread,
\* which is never suspended inside process_commands (try_recv does not
\* wait), goes on iterating.
LivePayloads == {<<"Volume", 2>>, <<"Volume", 8>>, <<"Pause", 0>>}

NextLive ==
    \/ ProcessBegin(0)
    \/ ProcessStep
    \/ \E h \in Handles, c \in LivePayloads :
          Len(commands) < MaxPending /\ Enqueue(h, c[1], c[2])
    \/ \E h \in Handles : Clone(h)

SpecLive ==
    InitFrom({s \in Sources : s.playable /\ s.seekable})
    /\ [][NextLive]_vars /\ WF_vars(ProcessStep)

\* Orphaned tracks: a handle and its clone send and are dropped, in any
\* order, while the mixer steps and drains.
DroppedPayloads == {<<"Volume", 2>>, <<"Stop", 0>>}

NextDropped ==
    \/ CallStepFrame
    \/ ProcessBegin(0)
    \/ ProcessStep
    \/ \E h \in Handles, c \in DroppedPayloads :
          Len(commands) < MaxPending /\ Enqueue(h, c[1], c[2])
    \/ \E h \in Handles : Clone(h)
    \/ \E h \in Handles : Drop(h)

SpecDropped == InitFrom({s \in Sources : s.playable /\ s.seekable}) /\ [][NextDropped]_vars

\* State requests against a track that may be dropped: callers blocked in
\* get_info are scheduled, so a wait that can end does end.
GonePayloads == {<<"Request", 0>>, <<"Volume", 2>>}

NextGone ==
    \/ ProcessBegin(0)
    \/ ProcessStep
    \/ \E h \in Handles, c \in GonePayloads :
          Len(commands) < MaxPending /\ Enqueue(h, c[1], c[2])
    \/ \E h \in Handles : Receive(h)
    \/ \E h \in Handles : Clone(h)
    \/ DropTrack

SpecGone ==
    InitFrom({s \in Sources : s.playable /\ s.seekable})
    /\ [][NextGone]_vars /\ \A h \in Handles : WF_vars(Receive(h))

\* Creation: further tracks are created, with fresh and with supplied uuids,
\* while the followed track is played, controlled, drained and dropped.
CreatePayloads == {<<"Volume", 2>>, <<"Do", 3>>}

NextCreate ==
    \/ CreatePlayer
    \/ \E u \in Uuids : CreatePlayerWithUuid(u)
    \/ \E m \in {"Pause", "Stop"} : CallSetPlaying(m)
    \/ ProcessBegin(0)
    \/ ProcessStep
    \/ \E c \in CreatePayloads : Len(commands) < MaxPending /\ Enqueue("A", c[1], c[2])
    \/ \E h \in Handles : Clone(h)
    \/ DropTrack

SpecCreate == InitFrom({s \in Sources : s.playable /\ s.seekable}) /\ [][NextCreate]_vars

\* Notifications: one handle sends every kind of command to a track whose
\* source is not yet playable, and the mixer drains under either index.
NotifyPayloads ==
    {<<"Play", 0>>, <<"Pause", 0>>, <<"Stop", 0>>, <<"Volume", 2>>, <<"Seek", 35>>,
     <<"AddEvent", 0>>, <<"Do", 3>>, <<"Request", 0>>, <<"Loop", MaxLoops>>,
     <<"MakePlayable", 0>>}

NextNotify ==
    \/ \E i \in Indices : ProcessBegin(i)
    \/ ProcessStep
    \/ \E c \in NotifyPayloads : Len(commands) < MaxPending /\ Enqueue("A", c[1], c[2])
    \/ Receive("A")

SpecNotify == InitFrom({s \in Sources : ~s.playable}) /\ [][NextNotify]_vars

\* The event thread: it may end at any time, while one handle sends commands
\* that notify, closures and state requests, and the mixer drains.
EventsPayloads ==
    {<<"Stop", 0>>, <<"Volume", 2>>, <<"Seek", 35>>, <<"Do", 1>>, <<"Do", 3>>,
     <<"Request", 0>>}

NextEvents ==
    \/ ProcessBegin(0)
    \/ ProcessStep
    \/ \E c \in EventsPayloads : Len(commands) < MaxPending /\ Enqueue("A", c[1], c[2])
    \/ Receive("A")
    \/ EventThreadGone

SpecEvents == InitFrom({s \in Sources : s.playable /\ s.seekable}) /\ [][NextEvents]_vars

\* ------------------------------------------------------------ claims
\* A command was received and applied in this step.
Received == Len(order') < Len(order)

\* C1: once the track's playing state is Stop or End, no step changes it:
\* every later play(), pause(), stop(), end() and every Play, Pause or Stop
\* command (and closure) leaves playing exactly as it was.
C1_TerminalModeStays ==
    [][track.playing \in {"Stop", "End"} => track'.playing = track.playing]_vars

\* C1's case: the mixer ended the track, and a Play command was applied to it
\* afterwards.
C1_Witness ==
    track.playing = "End" /\ done.st = "Ok" /\ done.item.kind = "Play"

\* process_commands returns in this step.
Returns == pc = "loop" /\ pc' = "idle"

\* C2: the command a step receives and applies is the oldest command of its
\* handle that is still queued: of two commands one handle sent, the later
\* is never applied first, however the other handles' sends interleave.
C2_PerHandleOrder ==
    [][Received => done'.item = Head(PerHandle(order, done'.item.h))]_vars

\* C2's case: A, B, A were queued (two different commands of A around one of
\* B) and the call has applied the first.
C2_Witness ==
    /\ Len(callStart) = 3
    /\ callStart[1].h = "A" /\ callStart[2].h = "B" /\ callStart[3].h = "A"
    /\ callStart[1] # callStart[3]
    /\ drained = <<callStart[1]>>
    /\ done.item = callStart[1]

RECURSIVE ApplyAll(_, _, _)
\* The track after the commands of q, applied in q's order.
ApplyAll(t, src, q) ==
    IF q = <<>> THEN t
    ELSE LET a == ApplyCommand(t, src, Head(q), 0, None) IN
         ApplyAll(a.t, a.src, Tail(q))

HasRequest(q, h) == \E i \in 1..Len(q) : q[i].kind = "Request" /\ q[i].h = h

\* The commands sent before h's queued Request and not yet applied.
BeforeRequest(q, h) ==
    SubSeq(q, 1, (CHOOSE i \in 1..Len(q) : q[i].kind = "Request" /\ q[i].h = h) - 1)

\* The track once everything sent before h's queued Request is applied in
\* the order it was sent.
Expected(h) == ApplyAll(track, source, BeforeRequest(order, h))

\* C3: from the moment a handle sends a Request, the track state that the
\* commands sent before it lead to (applied in the order they were sent) is
\* fixed, and it is exactly the snapshot put on the reply channel: every
\* command sent before the Request is applied when the reply is produced.
C3_RequestReflectsEarlier ==
    [][\A h \in Handles :
          HasRequest(order, h) =>
             IF HasRequest(order', h)
               THEN Expected(h)' = Expected(h)
               ELSE rx'[h].chan = <<Expected(h)>>]_vars

\* C3's case: A sent Volume(0.2), Loop(Infinite) and a Request; one call
\* applied the three, and the reply holds volume 0.2 and Infinite loops.
C3_Witness ==
    /\ drained = <<Cmd("Volume", 2, "A"), Cmd("Loop", Infinite, "A"), Cmd("Request", 0, "A")>>
    /\ rx["A"].chan = <<[playing |-> "Play", volume |-> 2, position |-> 0,
                         play_time |-> 0, loops |-> Infinite]>>

\* C4: when process_commands returns the queue is empty, and if no producer
\* sent during the call, the commands it applied are exactly those queued
\* when it started, each once and in that order.
C4_DrainsToExhaustion ==
    [][Returns => commands' = <<>> /\ (~enqDuring => drained = callStart)]_vars

\* C4's case: a call that started on a full queue has applied it all and
\* is about to see the queue empty.
C4_Witness ==
    /\ pc = "loop"
    /\ ~enqDuring
    /\ Len(callStart) = MaxQueue
    /\ drained = callStart
    /\ commands = <<>>

\* The volume of the last Volume command of q.
LastVolume(q) ==
    LET vs == SelectSeq(q, LAMBDA c : c.kind = "Volume") IN vs[Len(vs)].arg

\* C10: when a call returns that found Volume commands queued (and no
\* producer sent during it), the track's volume and the volume of state()
\* are those of the Volume command sent last, whichever handle sent it: A's
\* Volume(a) followed by its clone B's Volume(b) leaves b.
C10_LastVolumeWins ==
    [][(Returns /\ ~enqDuring /\ \E i \in 1..Len(callStart) : callStart[i].kind = "Volume")
         => /\ track'.volume = LastVolume(callStart)
            /\ state(track').volume = LastVolume(callStart)]_vars

\* C10's case: A sent Volume(0.2), then its clone B sent Volume(0.8), and one
\* call drained both.
C10_Witness ==
    /\ pc = "loop"
    /\ callStart = <<Cmd("Volume", 2, "A"), Cmd("Volume", 8, "B")>>
    /\ drained = callStart
    /\ commands = <<>>
    /\ track.volume = 8

\* C6: a set_loops call, and a Loop command, on a source that cannot seek
\* fails (SeekUnsupported, the only error; the command then sends nothing)
\* and leaves the track and the source as they were; on a seekable source it
\* returns Ok and changes the track in loops alone, to the requested value.
C6_SetLoopsGated ==
    [][/\ result'.op = "set_loops" =>
             IF source.seekable
               THEN result'.ok /\ track' = [track EXCEPT !.loops = result'.arg]
               ELSE ~result'.ok /\ track' = track /\ source' = source
       /\ (Received /\ done'.item.kind = "Loop") =>
             IF source.seekable
               THEN track' = [track EXCEPT !.loops = done'.item.arg]
               ELSE track' = track /\ source' = source /\ done'.sent = <<>>]_vars

\* C6's case: set_loops(Finite(MaxLoops)) was refused on a source that cannot
\* seek, and the loops are still Finite(0).
C6_Witness ==
    /\ ~source.seekable
    /\ result.op = "set_loops" /\ result.arg = MaxLoops /\ ~result.ok
    /\ track.loops = 0

\* C7: seek_time(pos) fails and leaves the track as it was when the source
\* resolves no position; when the source resolves t, it returns Ok(t) and
\* changes the track in position alone, to t (play_time stays).
C7_SeekTime ==
    [][result'.op = "seek_time" =>
          IF result'.src = None
            THEN ~result'.ok /\ track' = track
            ELSE /\ result'.ok
                 /\ result'.val = result'.src
                 /\ track' = [track EXCEPT !.position = result'.src]]_vars

\* C7's case: after a frame, a seek to 35 ms was resolved to 30 ms.
C7_Witness ==
    /\ result.op = "seek_time" /\ result.arg = 35 /\ result.ok /\ result.val = 30
    /\ track.position = 30
    /\ track.play_time = TIMESTEP_LENGTH

\* A seek succeeded in this step: seek_time returned Ok, or a Seek command
\* announced the new position.
SeekSucceeded ==
    \/ result'.op = "seek_time" /\ result'.ok /\ track'.position = result'.val
    \/ /\ Received
       /\ done'.item.kind = "Seek"
       /\ done'.sent = <<Msg("Position", index, "", track'.position, NoState)>>

\* C8: play_time is the number of step_frame calls times TIMESTEP_LENGTH and
\* never decreases; a step_frame call adds TIMESTEP_LENGTH to position, and
\* any other change of position is a successful seek.
C8_FrameStepping ==
    [][/\ track'.play_time = frames' * TIMESTEP_LENGTH
       /\ track'.play_time >= track.play_time
       /\ frames' = frames + 1 => track'.position = track.position + TIMESTEP_LENGTH
       /\ (frames' = frames /\ track'.position # track.position) => SeekSucceeded]_vars

\* C8's case: after MaxFrames frames and a do_loop call, a Seek command moved
\* the position back to 30 ms.
C8_Witness ==
    /\ frames = MaxFrames
    /\ loopCalls > 0
    /\ done.st = "Ok" /\ done.item.kind = "Seek"
    /\ track.position = 30
    /\ track.play_time = MaxFrames * TIMESTEP_LENGTH

Min(a, b) == IF a < b THEN a ELSE b

\* C9: since the loop state was last set (to loopBase), every do_loop call
\* on Infinite returned true and left Infinite; on Finite(n) exactly the
\* first n calls returned true, each taking one off the count, and every
\* later call returned false and left Finite(0).
C9_LoopConsumption ==
    IF loopBase = Infinite
      THEN track.loops = Infinite /\ loopPermits = loopCalls
      ELSE /\ loopPermits = Min(loopCalls, loopBase)
           /\ track.loops = loopBase - loopPermits

\* C9's case: from Finite(MaxLoops), MaxLoops calls were permitted and the
\* calls after them denied.
C9_Witness ==
    /\ loopBase = MaxLoops
    /\ loopCalls = MaxLoopCalls
    /\ loopPermits = MaxLoops
    /\ result.op = "do_loop" /\ ~result.ok
    /\ track.loops = 0

\* C5: every process_commands call returns to the mixer, whatever the
\* producers do, also when handles keep sending while the loop is running.
C5_CallReturns == (pc = "loop") ~> (pc = "idle")

\* The owning thread took a step of the loop of process_commands.
LoopStep == pc = "loop" /\ (commands' # commands \/ pc' # pc \/ done' # done)

\* C11: with every external handle dropped, an iteration of process_commands
\* applies the oldest command still queued and goes on, or, the queue being
\* empty, sees Empty or Disconnected and returns to the idle owner, leaving
\* the track and the source as they are.
C11_OrphanedDrain ==
    [][(live = {} /\ LoopStep) =>
          IF commands # <<>>
            THEN /\ done'.st = "Ok"
                 /\ done'.item = Head(commands)
                 /\ commands' = Tail(commands)
                 /\ pc' = "loop"
            ELSE /\ done'.st \in {"Empty", "Disconnected"}
                 /\ pc' = "idle"
                 /\ track' = track
                 /\ source' = source]_vars

\* C11's case: no handle is left, the running call has applied A's
\* Volume(0.2) after a frame was stepped, and A's Stop is still queued.
C11_Witness ==
    /\ live = {}
    /\ pc = "loop"
    /\ frames > 0
    /\ done.st = "Ok" /\ done.item = Cmd("Volume", 2, "A")
    /\ commands = <<Cmd("Stop", 0, "A")>>

WaitEnds(h) == rx[h].waiting /\ ~rx'[h].waiting

\* C12: a Request the track processes puts the snapshot of the track on the
\* caller's reply channel, where it stays until the wait ends; a wait ends
\* without a snapshot (with the error) only when the track is gone; and once
\* the track is gone or the snapshot is sent, the caller's wait does end.
C12_WaitEnds ==
    /\ [][\A h \in Handles :
            /\ (Received /\ done'.item = Cmd("Request", 0, h)) =>
                  rx'[h].chan = <<state(track)>>
            /\ (rx[h].waiting /\ rx[h].chan # <<>> /\ rx'[h].waiting) =>
                  rx'[h].chan = rx[h].chan
            /\ (WaitEnds(h) /\ rx[h].chan = <<>>) => pc = "gone"]_vars
    /\ \A h \in Handles :
          (rx[h].waiting /\ (pc = "gone" \/ rx[h].chan # <<>>)) ~> ~rx[h].waiting

\* C12's case: the track was dropped with A's Request still queued, and A,
\* blocked in get_info, finds its reply channel abandoned.
C12_Witness ==
    /\ pc = "gone"
    /\ rx["A"].waiting
    /\ rx["A"].chan = <<>>
    /\ rx["A"].closed

\* C13: no two control objects that exist carry the same uuid.
C13_OneControlObjectPerUuid ==
    \A i, j \in Existing : i # j => players[i].player.uuid # players[j].player.uuid

\* The track, its retained handle and the returned handle carry one uuid,
\* the supplied one if one was supplied.
IdsAgree(p) ==
    /\ p.player.uuid = p.handle.uuid
    /\ p.player.handle.uuid = p.handle.uuid
    /\ p.given # None => p.handle.uuid = p.given

\* C14: every created pair has one uuid for the track, the handle the track
\* retains and the handle returned, which is the supplied uuid for
\* create_player_with_uuid; and no step changes the uuids of a pair that was
\* created.
C14_SharedStableUuid ==
    /\ \A i \in DOMAIN players : IdsAgree(players[i])
    /\ [][/\ \A i \in DOMAIN players' : IdsAgree(players'[i])
          /\ Len(players') >= Len(players)
          /\ \A i \in DOMAIN players : players'[i] = players[i]]_vars

\* C14's case: create_player_with_uuid(2) and create_player (which drew 3)
\* made two more tracks, and the followed track, uuid 1, has applied a
\* command since.
C14_Witness ==
    /\ Len(players) = 3
    /\ players[1].player.uuid = 1
    /\ players[2].given = 2 /\ players[2].player.uuid = 2 /\ players[2].handle.uuid = 2
    /\ players[2].player.handle.uuid = 2
    /\ players[3].given = None /\ players[3].player.uuid = 3 /\ players[3].handle.uuid = 3
    /\ done.st = "Ok" /\ done.item.kind = "Do"
    /\ track.playing = "Pause"

\* C15: a dequeued command passes at most one message to ic.events.send, and
\* the message carries the index of the running call; Request and
\* MakePlayable pass none; a Seek passes none and leaves the track as it was,
\* or passes the position the source resolved, now the track's; a Loop on a
\* source that cannot seek passes none and leaves the track as it was, and on
\* a seekable source passes the loop state it set.
C15_OneNotification ==
    [][Received =>
          LET c == done'.item
              sent == done'.sent
          IN /\ Len(sent) <= 1
             /\ \A k \in 1..Len(sent) : sent[k].index = index
             /\ c.kind \in {"Request", "MakePlayable"} => sent = <<>>
             /\ c.kind = "Seek" =>
                   \/ sent = <<>> /\ track' = track
                   \/ /\ track'.position \in SourceSeek(source, c.arg) \ {None}
                      /\ sent = <<Msg("Position", index, "", track'.position, NoState)>>
             /\ c.kind = "Loop" =>
                   IF source.seekable
                     THEN sent = <<Msg("Loops", index, "", c.arg, NoState)>>
                     ELSE sent = <<>> /\ track' = track]_vars

\* C15's case: under index MaxIndex, a Loop command failed on a source that
\* cannot seek: nothing was sent and the loops are still Finite(0).
C15_Witness ==
    /\ ~source.seekable
    /\ pc = "loop" /\ index = MaxIndex
    /\ done.st = "Ok" /\ done.item.kind = "Loop"
    /\ done.sent = <<>>
    /\ track.loops = 0

\* C16: an iteration that receives a command changes the track, the source,
\* the queue and the reply channels, and goes on, exactly as it would with
\* the opposite fate of its send to the event subsystem (the seek resolving
\* alike): whether ic.events.send succeeds or fails makes no difference.
C16_SendFateIgnored ==
    [][Received =>
          \E resolved \in SeekChoices(done'.item, source) :
             LET a == Iteration(track, source, done'.item, index, resolved, ~icAlive) IN
             /\ track' = a.t
             /\ source' = a.src
             /\ done'.sent = a.sent
             /\ done'.item.kind = "Request" => rx'[done'.item.h].chan = a.reply
             /\ commands' = Tail(commands)
             /\ pc' = "loop"]_vars

\* C16's case: with the event thread gone, one call applied Volume(0.2) and
\* answered the Request sent after it with the snapshot holding 0.2.
C16_Witness ==
    /\ ~icAlive
    /\ drained = <<Cmd("Volume", 2, "A"), Cmd("Request", 0, "A")>>
    /\ track.volume = 2
    /\ rx["A"].chan = <<state(track)>>

\* C18: a Play, Pause or Stop command sends Mode with the track's playing
\* state as the command left it, and a Volume command sends the volume it
\* set, now the track's; both under the index of the running call.
C18_PayloadIsCurrent ==
    [][Received =>
          LET c == done'.item IN
          /\ c.kind \in {"Play", "Pause", "Stop"} =>
                done'.sent = <<Msg("Mode", index, track'.playing, 0, NoState)>>
          /\ c.kind = "Volume" =>
                /\ track'.volume = c.arg
                /\ done'.sent = <<Msg("Volume", index, "", track'.volume, NoState)>>]_vars

\* C18's case: a Play command reached a stopped track, and the message sent
\* says Stop.
C18_Witness ==
    /\ track.playing = "Stop"
    /\ done.st = "Ok" /\ done.item.kind = "Play"
    /\ done.sent = <<Msg("Mode", index, "Stop", 0, NoState)>>

\* C19: a Do command is handled inside process_commands when it is the
\* oldest in the queue, and leaves the queue; its closure runs once on the
\* track as the earlier commands left it; one Total message with the
\* snapshot of the track after the closure follows.  The toggling closure
\* (3) alone turns Pause into Play here, so no closure runs a second time.
C19_ClosureRunsOnce ==
    [][/\ (Received /\ done'.item.kind = "Do") =>
             /\ pc = "loop"
             /\ done'.item = Head(commands)
             /\ commands' = Tail(commands)
             /\ Len(order') = Len(order) - 1
             /\ track' = RunClosure(done'.item.arg, track, source)
             /\ done'.sent = <<Msg("Total", index, "", 0, state(track'))>>
       /\ (track.playing = "Pause" /\ track'.playing = "Play") =>
             Received /\ done'.item.kind = "Do" /\ done'.item.arg = 3]_vars

\* C19's case: two toggling closures were queued; the first has run, once
\* (the track is paused), and the second is still queued.
C19_Witness ==
    /\ callStart = <<Cmd("Do", 3, "A"), Cmd("Do", 3, "A")>>
    /\ drained = <<Cmd("Do", 3, "A")>>
    /\ commands = <<Cmd("Do", 3, "A")>>
    /\ track.playing = "Pause"
    /\ done.sent = <<Msg("Total", index, "", 0, state(track))>>

\* The owner called play(), pause(), stop() or end(), as m says, in this step.
CalledMode(m) ==
    pc = "idle" /\ pc' = "idle" /\ commands' = commands /\ result'.op = m

\* C17: a play(), pause(), stop() or end() call on a track in Play or Pause
\* leaves playing at Play, Pause, Stop or End respectively; and a call that
\* repeats the owner's previous call, nothing else having touched the track,
\* leaves the track as the first call left it.
C17_ExactAndIdempotent ==
    [][\A m \in PlayModes :
          CalledMode(m) =>
             /\ track.playing \in {"Play", "Pause"} => track'.playing = m
             /\ result.op = m => track' = track]_vars

\* C17's case: after a drain, end() was called on a track that was in Play
\* or Pause (only end() leads to End), and the track is ended.
C17_Witness ==
    /\ result.op = "End"
    /\ track.playing = "End"
    /\ done.st = "Empty"

=============================================================================
